---- MODULE Spec2Model ----
(***************************************************************************)
(* Bayesian_CBF: the GP regression engine (DynamicModelGP and the model it *)
(* builds), the concatenating encoder (CatEncoder), the heterogeneous      *)
(* kernel and mean with their task covariance, torch_kron, store_args and  *)
(* variable_required_grad, the training log of the control loop, the       *)
(* obstacle barrier constraint (ObstacleCBF), ShiftInvariantModel and      *)
(* UnsafeControllerUnicycle.  Tensors are sequences: a vector is a         *)
(* sequence of integers, a batch (N x w matrix) is a sequence of N rows.   *)
(***************************************************************************)
EXTENDS Integers, Sequences, FiniteSets, TLC

VARIABLES
    model,       \* DynamicModelGP.model: None or the DynamicsModelExactGP
    likelihood,  \* DynamicModelGP.likelihood: None or the IdentityLikelihood
    ret,         \* the last engine call: what was called and how it ended
    fitted,      \* history: "never" until a fit call completes, then "intact"
                 \* while the engine holds what that fit left, else "clobbered"
    enc,         \* a CatEncoder and its last call
    knl,         \* the last call of the heterogeneous kernel or mean
    cbf,         \* an ObstacleCBF and its last evaluation
    misc,        \* the last call of a function of misc.py
    ctrl,        \* the control loop: its step counter and training log
    uni          \* the last calls of a model or a controller of unicycle.py

vars == <<model, likelihood, ret, fitted, enc, knl, cbf, misc, ctrl, uni>>

None == [type |-> "None"]

\* ------------------------------------------------------------------ bounds
MaxRows == 2     \* rows of a training or test batch
MaxIter == 2     \* training_iter of a fit call

\* ------------------------------------------------------------ tensor helpers
Min(a, b) == IF a <= b THEN a ELSE b

RECURSIVE Sum(_)
Sum(s) == IF s = <<>> THEN 0 ELSE s[1] + Sum(Tail(s))

\* prod(shape)
RECURSIVE Prod(_)
Prod(s) == IF s = <<>> THEN 1 ELSE s[1] * Prod(Tail(s))

\* np.cumsum([0] + sizes)
cumsum0(sizes) == [k \in 1..(Len(sizes) + 1) |-> Sum(SubSeq(sizes, 1, k - 1))]

\* Python's v[s:e] for 0 <= s <= e: the slice is cut at the end of v
Slice(v, s, e) == SubSeq(v, Min(s, Len(v)) + 1, Min(e, Len(v)))

\* A.shape[-1] of a batch with at least one row
LastDim(A) == Len(A[1])

\* X.new_full([N, 1], M)
new_full(N, w, M) == [i \in 1..N |-> [j \in 1..w |-> M]]

RECURSIVE Flat(_)
\* A.reshape(-1)
Flat(A) == IF A = <<>> THEN <<>> ELSE A[1] \o Flat(Tail(A))

RECURSIVE RowCat(_)
RowCat(vs) == IF vs = <<>> THEN <<>> ELSE vs[1] \o RowCat(Tail(vs))

\* torch.cat(arrays, dim=-1) / np.concatenate(arrays, axis=-1): row by row
cat(arrays) ==
    [i \in 1..Len(arrays[1]) |-> RowCat([k \in 1..Len(arrays) |-> arrays[k][i]])]

\* -------------------------------------------------------------- lazy tensors
\* A matrix with its shape: shape = (rows, columns), e[i][j] its entries;
\* raised is "none", or the error of the operation that failed to build it.
Mat(r, c, e) == [shape |-> <<r, c>>, e |-> e, raised |-> "none"]

\* mutant: the factors are multiplied in the other order
KroneckerProductLazyTensor_flipped(A, B) ==
    IF A.raised /= "none" THEN A
    ELSE IF B.raised /= "none" THEN B
    ELSE Mat(A.shape[1] * B.shape[1], A.shape[2] * B.shape[2],
             [i \in 1..(A.shape[1] * B.shape[1]) |->
                 [j \in 1..(A.shape[2] * B.shape[2]) |->
                     B.e[((i - 1) \div A.shape[1]) + 1][((j - 1) \div A.shape[2]) + 1]
                     * A.e[((i - 1) % A.shape[1]) + 1][((j - 1) % A.shape[2]) + 1]]])

\* KroneckerProductLazyTensor(A, B): the block at (i, j) is A[i, j] * B
KroneckerProductLazyTensor(A, B) ==
    IF A.raised /= "none" THEN A
    ELSE IF B.raised /= "none" THEN B
    ELSE Mat(A.shape[1] * B.shape[1], A.shape[2] * B.shape[2],
             [i \in 1..(A.shape[1] * B.shape[1]) |->
                 [j \in 1..(A.shape[2] * B.shape[2]) |->
                     A.e[((i - 1) \div B.shape[1]) + 1][((j - 1) \div B.shape[2]) + 1]
                     * B.e[((i - 1) % B.shape[1]) + 1][((j - 1) % B.shape[2]) + 1]]])

\* what an operation on tensors whose sizes do not fit gives
SizeMismatch == [shape |-> <<0, 0>>, e |-> <<>>, raised |-> "RuntimeError"]

\* A @ B
matmul(A, B) ==
    IF A.raised /= "none" THEN A
    ELSE IF B.raised /= "none" THEN B
    ELSE IF A.shape[2] /= B.shape[1] THEN SizeMismatch
    ELSE Mat(A.shape[1], B.shape[2],
             [i \in 1..A.shape[1] |->
                 [j \in 1..B.shape[2] |->
                     Sum([k \in 1..A.shape[2] |-> A.e[i][k] * B.e[k][j]])]])

\* A.t()
t(A) ==
    IF A.raised /= "none" THEN A
    ELSE Mat(A.shape[2], A.shape[1],
             [i \in 1..A.shape[2] |-> [j \in 1..A.shape[1] |-> A.e[j][i]]])

\* A[r0:r1, c0:c1]
getitem(A, r0, r1, c0, c1) ==
    Mat(r1 - r0, c1 - c0,
        [i \in 1..(r1 - r0) |-> [j \in 1..(c1 - c0) |-> A.e[r0 + i][c0 + j]]])

\* BlockDiagLazyTensor(NonLazyTensor(Us.unsqueeze(1))): one 1 x w block per
\* row of Us, laid along the diagonal
BlockDiagLazyTensor(Us, w) ==
    Mat(Len(Us), Len(Us) * w,
        [i \in 1..Len(Us) |->
            [j \in 1..(Len(Us) * w) |->
                IF (j - 1) \div w = i - 1 THEN Us[i][((j - 1) % w) + 1] ELSE 0]])

\* lazycat([A, B], dim)
lazycat(A, B, dim) ==
    IF A.raised /= "none" THEN A
    ELSE IF B.raised /= "none" THEN B
    ELSE IF dim = 1
    THEN IF A.shape[1] /= B.shape[1] THEN SizeMismatch
         ELSE Mat(A.shape[1], A.shape[2] + B.shape[2],
                  [i \in 1..A.shape[1] |->
                      [j \in 1..(A.shape[2] + B.shape[2]) |->
                          IF j <= A.shape[2] THEN A.e[i][j]
                          ELSE B.e[i][j - A.shape[2]]]])
    ELSE IF A.shape[2] /= B.shape[2] THEN SizeMismatch
         ELSE Mat(A.shape[1] + B.shape[1], A.shape[2],
                  [i \in 1..(A.shape[1] + B.shape[1]) |->
                      [j \in 1..A.shape[2] |->
                          IF i <= A.shape[1] THEN A.e[i][j]
                          ELSE B.e[i - A.shape[1]][j]]])

\* ---------------------------------------------------------------- CatEncoder
encode(arrays) == cat(arrays)

\* mutant: the offsets are np.cumsum(sizes), without the leading 0
decode_no0(sizes, X) ==
    LET idxs == Tail(cumsum0(sizes))
    IN  [k \in 1..(Len(sizes) - 1) |->
            [i \in 1..Len(X) |-> Slice(X[i], idxs[k], idxs[k + 1])]]

decode(sizes, X) ==
    LET idxs == cumsum0(sizes)
    IN  [k \in 1..Len(sizes) |->
            [i \in 1..Len(X) |-> Slice(X[i], idxs[k], idxs[k + 1])]]

\* CatEncoder.from_data: the recorded widths and the encoded batch
from_data(arrays) ==
    [sizes |-> [k \in 1..Len(arrays) |-> LastDim(arrays[k])],
     X     |-> encode(arrays)]

\* ------------------------------------------------------ DynamicsModelExactGP
\* mutant: the auxiliary field is the bare control, without the leading mask
encode_from_XU_bare(matshape, Xtrain, Utrain, M) ==
    LET N       == Len(Xtrain)
        Mtrain  == new_full(N, 1, M)
        UHtrain == IF M /= 0
                   THEN Utrain
                   ELSE new_full(N, matshape[1], 0)
    IN  from_data(<<Mtrain, Xtrain, UHtrain>>)

\* mutant: the zero auxiliary field of a value row has the state's width
encode_from_XU_narrow(matshape, Xtrain, Utrain, M) ==
    LET N       == Len(Xtrain)
        Mtrain  == new_full(N, 1, M)
        UHtrain == IF M /= 0
                   THEN cat(<<Mtrain, Utrain>>)
                   ELSE new_full(N, matshape[2], 0)
    IN  from_data(<<Mtrain, Xtrain, UHtrain>>)

\* encode_from_XU(Xtrain, Utrain, M) with self.matshape = matshape
encode_from_XU(matshape, Xtrain, Utrain, M) ==
    LET N       == Len(Xtrain)
        Mtrain  == new_full(N, 1, M)
        UHtrain == IF M /= 0
                   THEN cat(<<Mtrain, Utrain>>)
                   ELSE new_full(N, matshape[1], 0)
    IN  from_data(<<Mtrain, Xtrain, UHtrain>>)

\* IndexKernel(num_tasks), of rank 1: covar_matrix is
\* covar_factor covar_factor^T + diag(var).  The learnable parameters
\* covar_factor and var are stood in for by integers that differ from task
\* to task and from one kernel size to another.
IndexKernel(num_tasks) ==
    [type         |-> "IndexKernel",
     num_tasks    |-> num_tasks,
     covar_factor |-> [i \in 1..num_tasks |-> num_tasks + i],
     var          |-> [i \in 1..num_tasks |-> i]]

IndexKernel_covar_matrix(K) ==
    Mat(K.num_tasks, K.num_tasks,
        [i \in 1..K.num_tasks |->
            [j \in 1..K.num_tasks |->
                K.covar_factor[i] * K.covar_factor[j] + (IF i = j THEN K.var[i] ELSE 0)]])

\* mutant: the two factors are handed over in the other order
MatrixVariateIndexKernel_swapped(U, V) ==
    [type |-> "MatrixVariateIndexKernel", U |-> V, V |-> U,
     matshape |-> <<V.num_tasks, U.num_tasks>>]

\* MatrixVariateIndexKernel(U, V): matshape = (n, p) with n the size of U
\* and p the size of V
MatrixVariateIndexKernel(U, V) ==
    [type |-> "MatrixVariateIndexKernel", U |-> U, V |-> V,
     matshape |-> <<U.num_tasks, V.num_tasks>>]

\* MatrixVariateIndexKernel.covar_matrix
MatrixVariateIndexKernel_covar_matrix(K) ==
    KroneckerProductLazyTensor(IndexKernel_covar_matrix(K.V),
                               IndexKernel_covar_matrix(K.U))

\* The hyperparameters of a freshly constructed model: ConstantMean(),
\* IndexKernel(...), ScaleKernel(RBFKernel()) are new modules, so no
\* optimizer step has been applied to them.  hyper counts the optimizer
\* steps applied since the modules were constructed.
FreshHyper == [steps |-> 0]

\* mutant: the new model keeps the hyperparameters of the model the engine holds
DynamicsModelExactGP_warm(Xtrain, Utrain, XdotTrain, lik) ==
    LET matshape == <<1 + LastDim(Utrain), LastDim(Xtrain)>>
        e        == encode_from_XU(matshape, Xtrain, Utrain, 1)
    IN  [type          |-> "DynamicsModelExactGP",
         matshape      |-> matshape,
         decoder       |-> e.sizes,
         train_inputs  |-> e.X,
         train_targets |-> Flat(XdotTrain),
         task_covar    |-> MatrixVariateIndexKernel(IndexKernel(matshape[2]),
                                                    IndexKernel(matshape[1])),
         likelihood    |-> lik,
         prediction_strategy |-> None,
         hyper         |-> IF model = None THEN FreshHyper ELSE model.hyper,
         training      |-> TRUE]

\* mutant: the new rows are appended to the training set the engine holds
DynamicsModelExactGP_appending(Xtrain, Utrain, XdotTrain, lik) ==
    LET matshape == <<1 + LastDim(Utrain), LastDim(Xtrain)>>
        e        == encode_from_XU(matshape, Xtrain, Utrain, 1)
    IN  [type          |-> "DynamicsModelExactGP",
         matshape      |-> matshape,
         decoder       |-> e.sizes,
         train_inputs  |-> (IF model = None THEN <<>> ELSE model.train_inputs) \o e.X,
         train_targets |-> (IF model = None THEN <<>> ELSE model.train_targets)
                           \o Flat(XdotTrain),
         task_covar    |-> MatrixVariateIndexKernel(IndexKernel(matshape[2]),
                                                    IndexKernel(matshape[1])),
         likelihood    |-> lik,
         prediction_strategy |-> None,
         hyper         |-> FreshHyper,
         training      |-> TRUE]

DynamicsModelExactGP(Xtrain, Utrain, XdotTrain, lik) ==
    LET matshape == <<1 + LastDim(Utrain), LastDim(Xtrain)>>
        e        == encode_from_XU(matshape, Xtrain, Utrain, 1)
    IN  [type          |-> "DynamicsModelExactGP",
         matshape      |-> matshape,
         decoder       |-> e.sizes,
         train_inputs  |-> e.X,
         train_targets |-> Flat(XdotTrain),
         task_covar    |-> MatrixVariateIndexKernel(IndexKernel(matshape[2]),
                                                    IndexKernel(matshape[1])),
         likelihood    |-> lik,
         prediction_strategy |-> None,
         hyper         |-> FreshHyper,
         training      |-> TRUE]

\* ------------------------------------------------------------ DynamicModelGP
\* A new IdentityLikelihood object: an identity no live object has.
LiveIds ==
    (IF likelihood = None THEN {} ELSE {likelihood.id})
    \cup (IF model = None THEN {} ELSE {model.likelihood})

IdentityLikelihood ==
    [type     |-> "IdentityLikelihood",
     id       |-> CHOOSE i \in 1..(Cardinality(LiveIds) + 1) : i \notin LiveIds,
     training |-> TRUE]

\* Inputs of the engine: the observations (state, control, measured
\* derivative) a control loop has logged; a training or test batch is a
\* window of consecutive observations of the log.
Observation(i) ==
    [x |-> <<i, 3 - i>>, u |-> <<i % 2, i + 1>>, xdot |-> <<2 * i, 2 * i + 1>>]

Windows ==
    {[from |-> s, rows |-> N] : s \in 1..MaxRows, N \in 1..MaxRows}

InLog(w) == w.from + w.rows - 1 <= MaxRows

XOf(w)    == [i \in 1..w.rows |-> Observation(w.from + i - 1).x]
UOf(w)    == [i \in 1..w.rows |-> Observation(w.from + i - 1).u]
XdotOf(w) == [i \in 1..w.rows |-> Observation(w.from + i - 1).xdot]

\* where a fit call can raise: nowhere, in the conversion of its arguments
\* (lines 232-234), in the model constructor (line 240), or in iteration i
\* of the optimisation loop (lines 255-264, before optimizer.step())
Raises(training_iter) ==
    {[at |-> "none", i |-> 0], [at |-> "from_numpy", i |-> 0],
     [at |-> "DynamicsModelExactGP", i |-> 0]}
    \cup {[at |-> "loop", i |-> k] : k \in 1..training_iter}

\* k calls of optimizer.step() on the parameters of model m
Step(m, k) == [m EXCEPT !.hyper.steps = m.hyper.steps + k]

\* The history of a fit call that raised and left model m and likelihood l:
\* "intact" while the engine holds what the last completed fit left.
After(h, m, l) ==
    IF h = "never" THEN "never"
    ELSE IF m = model /\ l = likelihood THEN h
    ELSE "clobbered"

\* mutant: the test rows are put before the training rows
ExactGP_call_test_first(m, inputs) ==
    IF m.training THEN <<inputs>>
    ELSE (IF m.prediction_strategy = None THEN <<m.train_inputs>> ELSE <<>>)
         \o <<inputs \o m.train_inputs>>

\* model(inputs), the __call__ that DynamicsModelExactGP inherits from ExactGP:
\* the batches it hands to forward, which hands each one to the mean module
\* and to the covariance module.  In training mode that is the batch it was
\* given; in eval mode it is the training batch (while the model has no
\* prediction strategy yet) and then torch.cat([train_input, input], dim=-2),
\* the training rows followed by the rows it was given.
ExactGP_call(m, inputs) ==
    IF m.training THEN <<inputs>>
    ELSE (IF m.prediction_strategy = None THEN <<m.train_inputs>> ELSE <<>>)
         \o <<m.train_inputs \o inputs>>

\* handed: the batches the last model call of the engine call handed to forward
FitRet(outcome, raises, args, start, handed) ==
    [op |-> "fit", outcome |-> outcome, at |-> raises.at, args |-> args,
     start |-> start, value |-> None, handed |-> handed]

fit(Xtrain, Utrain, XdotTrain, training_iter, raises) ==
    LET lik  == IdentityLikelihood
        new  == DynamicsModelExactGP(Xtrain, Utrain, XdotTrain, lik.id)
        args == [Xtrain |-> Xtrain, Utrain |-> Utrain, XdotTrain |-> XdotTrain,
                 training_iter |-> training_iter]
        \* output = model(*model.train_inputs), in each iteration of the loop
        handed == ExactGP_call(new, new.train_inputs)
    IN  CASE raises.at = "from_numpy" ->
               /\ UNCHANGED <<model, likelihood, fitted>>
               /\ ret' = FitRet("raised", raises, None, None, <<>>)
          [] raises.at = "DynamicsModelExactGP" ->
               /\ likelihood' = lik
               /\ UNCHANGED model
               /\ fitted' = After(fitted, model, lik)
               /\ ret' = FitRet("raised", raises, None, None, <<>>)
          [] raises.at = "loop" ->
               /\ likelihood' = lik
               /\ model' = Step(new, raises.i - 1)
               /\ fitted' = After(fitted, Step(new, raises.i - 1), lik)
               /\ ret' = FitRet("raised", raises, args, new.hyper, handed)
          [] OTHER ->
               /\ likelihood' = lik
               /\ model' = Step(new, training_iter)
               /\ fitted' = "intact"
               /\ ret' = FitRet("returned", raises, args, new.hyper,
                                IF training_iter > 0 THEN handed ELSE <<>>)

predict(Xtest) ==
    /\ UNCHANGED fitted
    /\ IF model = None \/ likelihood = None
       THEN /\ UNCHANGED <<model, likelihood>>
            /\ ret' = [op |-> "predict", outcome |-> "raised", at |-> "RuntimeError",
                       args |-> None, start |-> None, value |-> None,
                       handed |-> <<>>]
       ELSE LET e == encode_from_XU(model.matshape, Xtest, None, 0)
                \* self.model.eval()
                m == [model EXCEPT !.training = FALSE]
            IN  /\ model' = [m EXCEPT !.prediction_strategy = [type |-> "PredictionStrategy"]]
                /\ likelihood' = [likelihood EXCEPT !.training = FALSE]
                /\ ret' = [op |-> "predict", outcome |-> "returned", at |-> "none",
                           args |-> None, start |-> None,
                           value |-> [train_inputs  |-> model.train_inputs,
                                      train_targets |-> model.train_targets,
                                      hyper         |-> model.hyper,
                                      decoder       |-> e.sizes,
                                      test          |-> e.X],
                           \* output = self.model(MXUHtest)
                           handed |-> ExactGP_call(m, e.X)]

Idle == [op |-> "none"]

InitEngine ==
    /\ model = None
    /\ likelihood = None
    /\ fitted = "never"
    /\ ret = [op |-> "none", outcome |-> "none", at |-> "none", args |-> None,
              start |-> None, value |-> None, handed |-> <<>>]

Fit ==
    \E w \in Windows :
    \E training_iter \in 0..MaxIter :
    \E raises \in Raises(training_iter) :
        /\ InLog(w)
        /\ fit(XOf(w), UOf(w), XdotOf(w), training_iter, raises)
        /\ UNCHANGED <<enc, knl, cbf, misc, ctrl, uni>>

Predict ==
    \E w \in Windows :
        /\ InLog(w)
        /\ predict(XOf(w))
        /\ UNCHANGED <<enc, knl, cbf, misc, ctrl, uni>>

Init ==
    /\ InitEngine
    /\ enc = Idle
    /\ knl = Idle
    /\ cbf = Idle
    /\ misc = Idle
    /\ ctrl = Idle
    /\ uni = Idle

Next == Fit \/ Predict

Spec == Init /\ [][Next]_vars

\* ----------------------------------------------------- CatEncoder, on its own
\* Inputs: the arrays handed to from_data and a batch X handed to decode.
\* Entries are labelled by array, row and column, so a misplaced column shows.
MaxWidth == 2    \* trailing width of an array handed to from_data

Arities == {1, 2, 3}

Labelled(k, w) == [r \in 1..2 |-> [j \in 1..w |-> 100 * k + 10 * r + j]]

ArrayTuples ==
    UNION {{[k \in 1..n |-> Labelled(k, ws[k])] : ws \in [1..n -> 0..MaxWidth]}
           : n \in Arities}

XBatches == {Labelled(0, w) : w \in 0..(3 * MaxWidth + 1)}

\* batch: the batch last handed to decode
EncState(op, e, sizes, batch, args, result) ==
    [op |-> op, arrays |-> e.arrays, X |-> e.X, sizes |-> sizes, batch |-> batch,
     args |-> args, outcome |-> "returned", result |-> result]

InitEncoder ==
    enc \in {[op |-> "none", arrays |-> A, X |-> X, sizes |-> <<>>,
              batch |-> None, args |-> None, outcome |-> "none", result |-> None]
             : A \in ArrayTuples, X \in XBatches}

\* encoder, X = CatEncoder.from_data(*arrays)
EncFromData ==
    /\ enc.op = "none"
    /\ LET e == from_data(enc.arrays)
       IN  enc' = EncState("from_data", enc, e.sizes, None, enc.arrays, e.X)
    /\ UNCHANGED <<model, likelihood, ret, fitted, knl, cbf, misc, ctrl, uni>>

\* encoder.decode(X), of the batch from_data returned or of the input batch
EncDecode ==
    /\ enc.op = "from_data"
    /\ \E X \in {enc.result, enc.X} :
           enc' = EncState("decode", enc, enc.sizes, X, X, decode(enc.sizes, X))
    /\ UNCHANGED <<model, likelihood, ret, fitted, knl, cbf, misc, ctrl, uni>>

\* encoder.encode(*arrays), of the arrays decode returned
EncEncode ==
    /\ enc.op = "decode"
    /\ enc' = EncState("encode", enc, enc.sizes, enc.batch, enc.result,
                           encode(enc.result))
    /\ UNCHANGED <<model, likelihood, ret, fitted, knl, cbf, misc, ctrl, uni>>

NextEncoder == EncFromData \/ EncDecode \/ EncEncode

InitEnc ==
    /\ InitEngine /\ InitEncoder
    /\ knl = Idle /\ cbf = Idle /\ misc = Idle /\ ctrl = Idle /\ uni = Idle

SpecEncoder == InitEnc /\ [][NextEncoder]_vars

\* ------------------------------------------ heterogeneous kernel and mean
MaxBatch == 3    \* rows of a batch handed to the kernel or the mean

\* The decoder and the rows are those the engine builds from the logged
\* observations: row i of a batch encodes observation i, as a derivative row
\* (mask 1) or as a value row (mask 0), in any order of the masks.
KMatshape == <<1 + Len(Observation(1).u), Len(Observation(1).x)>>

KRow(mask, i) ==
    encode_from_XU(KMatshape, <<Observation(i).x>>, <<Observation(i).u>>, mask).X[1]

KDecoder ==
    encode_from_XU(KMatshape, <<Observation(1).x>>, <<Observation(1).u>>, 1).sizes

KBatches ==
    UNION {{[i \in 1..N |-> KRow(ms[i], i)] : ms \in [1..N -> {0, 1}]}
           : N \in 1..MaxBatch}

\* Ms[..., 0] of the decoded mask column
MaskOf(decoder, mxu) == [i \in 1..Len(mxu) |-> decode(decoder, mxu)[1][i][1]]

\* idxs = torch.nonzero(Ms - ones); idxend = min(idxs) if idxs.numel() else
\* Ms.size(-1): the 0-based index of the first row whose mask is not 1
idxend(Ms) ==
    LET idxs == {i \in 0..(Len(Ms) - 1) : Ms[i + 1] - 1 /= 0}
    IN  IF idxs /= {} THEN CHOOSE i \in idxs : \A j \in idxs : i <= j
        ELSE Len(Ms)

\* mutant: only the row at idxend is looked at
assume_sorted_first(Ms, k) == k < Len(Ms) => Ms[k + 1] = 0

\* assert (Ms[..., idxend:] == 0).all()
assume_sorted(Ms, k) == \A i \in (k + 1)..Len(Ms) : Ms[i] = 0

KnlState(op, k, outcome, value) ==
    [op |-> op, mxu1 |-> k.mxu1, mxu2 |-> k.mxu2, diag |-> k.diag,
     last_dim_is_batch |-> k.last_dim_is_batch, outcome |-> outcome,
     value |-> value]

InitKernel ==
    knl \in {[op |-> "none", mxu1 |-> b1, mxu2 |-> b2, diag |-> d,
              last_dim_is_batch |-> l, outcome |-> "none", value |-> None]
             : b1 \in KBatches, b2 \in KBatches, d \in BOOLEAN, l \in BOOLEAN}

\* data_covar_module.forward(X1, X2): ScaleKernel(RBFKernel()), a positive
\* decreasing function of the squared distance of the two states, stood in
\* for by an integer one
data_covar_module(X1, X2) ==
    Mat(Len(X1), Len(X2),
        [i \in 1..Len(X1) |->
            [j \in 1..Len(X2) |->
                100 - Sum([c \in 1..Len(X1[i]) |->
                              (X1[i][c] - X2[j][c]) * (X1[i][c] - X2[j][c])])]])

\* the kernel and the mean the model builds for matshape and decoder
HetergeneousMatrixVariateKernel(task_covar, decoder) ==
    [task_covar_module |-> task_covar, decoder |-> decoder]

HetergeneousMatrixVariateMean(decoder, matshape) ==
    [decoder |-> decoder, matshape |-> matshape]

KKernel ==
    HetergeneousMatrixVariateKernel(
        MatrixVariateIndexKernel(IndexKernel(KMatshape[2]), IndexKernel(KMatshape[1])),
        KDecoder)

KMean == HetergeneousMatrixVariateMean(KDecoder, KMatshape)

\* HetergeneousMatrixVariateKernel.num_outputs_per_input(mxu1, mxu2); "//" is
\* the floor division of two non-negative integers
num_outputs_per_input(self, mxu1, mxu2) ==
    LET d1      == decode(self.decoder, mxu1)
        M1s     == MaskOf(self.decoder, mxu1)
        idxend1 == idxend(M1s)
    IN  (idxend1 * LastDim(d1[2])
         + (Len(M1s) - idxend1) * Prod(self.task_covar_module.matshape))
        \div Len(M1s)

\* HetergeneousMatrixVariateKernel.mask_dependent_covar(M1s, U1, M2s, U2,
\* covar_xx); M1s and M2s are the mask columns.  blocks names the blocks the
\* call has built into its result.
mask_dependent_covar(self, M1s, U1, M2s, U2, covar_xx) ==
    LET idxend1 == idxend(M1s)
        idxend2 == idxend(M2s)
        U1s == SubSeq(U1, 1, idxend1)
        U2s == SubSeq(U2, 1, idxend2)
        H1  == BlockDiagLazyTensor(U1s, LastDim(U1))
        H2  == BlockDiagLazyTensor(U2s, LastDim(U2))
        Kxx == covar_xx
        V   == IndexKernel_covar_matrix(self.task_covar_module.V)
        U   == IndexKernel_covar_matrix(self.task_covar_module.U)
        Kij_xx_11 ==
            KroneckerProductLazyTensor(
                matmul(matmul(H1, KroneckerProductLazyTensor(
                                      getitem(Kxx, 0, idxend1, 0, idxend2), V)),
                       t(H2)), U)
        k_xx_12   == getitem(Kxx, 0, idxend1, idxend2, Len(M2s))
        Kij_xx_12 ==
            KroneckerProductLazyTensor(
                matmul(H1, KroneckerProductLazyTensor(k_xx_12, V)), U)
        Kij_xx_21 == t(Kij_xx_12)
        k_xx_22   == getitem(Kxx, idxend1, Len(M1s), idxend2, Len(M2s))
        Kij_xx_22 ==
            KroneckerProductLazyTensor(KroneckerProductLazyTensor(k_xx_22, V), U)
        out == lazycat(lazycat(Kij_xx_11, Kij_xx_12, 1),
                       lazycat(Kij_xx_21, Kij_xx_22, 1), 0)
    IN  IF ~assume_sorted(M1s, idxend1) \/ ~assume_sorted(M2s, idxend2)
        THEN [outcome |-> "AssertionError", value |-> None]
        ELSE IF idxend1 < Len(M1s)
        THEN IF out.raised /= "none"
             THEN [outcome |-> out.raised, value |-> None]
             ELSE [outcome |-> "returned",
                   value |-> [shape |-> out.shape, out |-> out.e,
                              blocks |-> {"11", "12", "21", "22"},
                              idxend1 |-> idxend1, idxend2 |-> idxend2]]
        ELSE IF Kij_xx_11.raised /= "none"
             THEN [outcome |-> Kij_xx_11.raised, value |-> None]
             ELSE [outcome |-> "returned",
                   value |-> [shape |-> Kij_xx_11.shape, out |-> Kij_xx_11.e,
                              blocks |-> {"11"},
                              idxend1 |-> idxend1, idxend2 |-> idxend2]]

\* res.diag() of a returned res: the main diagonal of a square matrix; of a
\* matrix that is not square, the library either raises or returns the
\* diagonal of the leading square part
diag_of(res) ==
    LET d == [outcome |-> "returned",
              value |-> [res.value EXCEPT
                            !.shape = <<Min(res.value.shape[1], res.value.shape[2])>>,
                            !.out = [i \in 1..Min(res.value.shape[1], res.value.shape[2])
                                        |-> res.value.out[i][i]]]]
    IN  IF res.value.shape[1] = res.value.shape[2] THEN {d}
        ELSE {d, [outcome |-> "RuntimeError", value |-> None]}

\* the error forward raises for last_dim_is_batch
LastDimIsBatchError ==
    "RuntimeError: MultitaskKernel does not accept the last_dim_is_batch argument."

\* mutant: last_dim_is_batch is looked at after the covariance is built
forward_late(self, mxu1, mxu2, diag, last_dim_is_batch) ==
    LET d1  == decode(self.decoder, mxu1)
        d2  == decode(self.decoder, mxu2)
        covar_x == data_covar_module(d1[2], d2[2])
        res == mask_dependent_covar(self, MaskOf(self.decoder, mxu1), d1[3],
                                    MaskOf(self.decoder, mxu2), d2[3], covar_x)
    IN  IF res.outcome /= "returned" THEN {res}
        ELSE IF last_dim_is_batch
        THEN {[outcome |-> LastDimIsBatchError, value |-> None]}
        ELSE IF ~diag THEN {res}
        ELSE diag_of(res)

\* HetergeneousMatrixVariateKernel.forward(mxu1, mxu2, diag, last_dim_is_batch):
\* the outcomes the call can have
forward(self, mxu1, mxu2, diag, last_dim_is_batch) ==
    LET d1  == decode(self.decoder, mxu1)
        d2  == decode(self.decoder, mxu2)
        covar_x == data_covar_module(d1[2], d2[2])
        res == mask_dependent_covar(self, MaskOf(self.decoder, mxu1), d1[3],
                                    MaskOf(self.decoder, mxu2), d2[3], covar_x)
    IN  IF last_dim_is_batch
        THEN {[outcome |-> LastDimIsBatchError, value |-> None]}
        ELSE IF res.outcome /= "returned" \/ ~diag THEN {res}
        ELSE diag_of(res)

\* a ConstantMean of the mean module: its learnable constant, stood in for
\* by the number of its task
base_means(task, MXU) == [i \in 1..Len(MXU) |-> task]

\* mutant: the means of the value rows are left out
mean_forward_no_Fmean(self, MXU) ==
    LET d   == decode(self.decoder, MXU)
        Ms  == MaskOf(self.decoder, MXU)
        k   == idxend(Ms)
        N   == Len(Ms)
        n   == self.matshape[1]
        p   == self.matshape[2]
        UH  == SubSeq(d[3], 1, k)
        mu  == [i \in 1..N |-> [a \in 1..n |-> [c \in 1..p |->
                   base_means((a - 1) * p + c, MXU)[i]]]]
        XdotMean == [i \in 1..k |-> [c \in 1..p |->
                        Sum([a \in 1..n |-> UH[i][a] * mu[i][a][c]])]]
    IN  IF ~assume_sorted(Ms, k)
        THEN [outcome |-> "AssertionError", value |-> None]
        ELSE [outcome |-> "returned",
              value |-> [idxend |-> k, output |-> Flat(XdotMean)]]

\* HetergeneousMatrixVariateMean.forward(MXU)
mean_forward(self, MXU) ==
    LET d   == decode(self.decoder, MXU)
        Ms  == MaskOf(self.decoder, MXU)
        k   == idxend(Ms)
        N   == Len(Ms)
        n   == self.matshape[1]
        p   == self.matshape[2]
        UH  == SubSeq(d[3], 1, k)
        \* torch.cat of the n p base means, reshaped to (N, n, p)
        mu  == [i \in 1..N |-> [a \in 1..n |-> [c \in 1..p |->
                   base_means((a - 1) * p + c, MXU)[i]]]]
        XdotMean == [i \in 1..k |-> [c \in 1..p |->
                        Sum([a \in 1..n |-> UH[i][a] * mu[i][a][c]])]]
        output == Flat(XdotMean)
        Fmean  == Flat([i \in 1..(N - k) |-> Flat(mu[k + i])])
    IN  IF ~assume_sorted(Ms, k)
        THEN [outcome |-> "AssertionError", value |-> None]
        ELSE [outcome |-> "returned",
              value |-> [idxend |-> k,
                         output |-> IF N /= k THEN output \o Fmean ELSE output]]

KernelForward ==
    /\ knl.op = "none"
    /\ \E r \in forward(KKernel, knl.mxu1, knl.mxu2, knl.diag, knl.last_dim_is_batch) :
           knl' = KnlState("kernel", knl, r.outcome, r.value)
    /\ UNCHANGED <<model, likelihood, ret, fitted, enc, cbf, misc, ctrl, uni>>

MeanForward ==
    /\ knl.op = "none"
    /\ LET r == mean_forward(KMean, knl.mxu1)
       IN  knl' = KnlState("mean", knl, r.outcome, r.value)
    /\ UNCHANGED <<model, likelihood, ret, fitted, enc, cbf, misc, ctrl, uni>>

NumOutputsPerInput ==
    /\ knl.op = "none"
    /\ knl' = KnlState("num_outputs_per_input", knl, "returned",
                       [num |-> num_outputs_per_input(KKernel, knl.mxu1, knl.mxu2)])
    /\ UNCHANGED <<model, likelihood, ret, fitted, enc, cbf, misc, ctrl, uni>>

NextKernel == KernelForward \/ MeanForward \/ NumOutputsPerInput

InitKnl ==
    /\ InitEngine /\ InitKernel
    /\ enc = Idle /\ cbf = Idle /\ misc = Idle /\ ctrl = Idle /\ uni = Idle

SpecKernel == InitKnl /\ [][NextKernel]_vars

\* ---------------------------------------------------------------- store_args
\* store_args(method, skip) applied to a call method(self, *args, **kwargs):
\* the attributes the wrapper sets before the wrapped body runs.  argspec is
\* inspect.getfullargspec(method); kwargs is a function from names to values.
\* mutant: the keyword arguments of the call are not stored
store_args_no_kwargs(argspec, skip, args, kwargs) ==
    LET na == Len(argspec.args)
        nd == Len(argspec.defaults)
        defaulted  == {argspec.args[na - nd + k] : k \in 1..nd}
        positional == {argspec.args[1 + k] : k \in 1..Min(Len(args), na - 1)}
        DefaultOf(n) ==
            argspec.defaults[CHOOSE k \in 1..nd : argspec.args[na - nd + k] = n]
        PosOf(n) == args[CHOOSE k \in 1..Len(args) : argspec.args[1 + k] = n]
    IN  IF argspec.kwonlydefaults /= <<>>
        THEN [outcome |-> "AttributeError", attrs |-> <<>>]
        ELSE [outcome |-> "returned",
              attrs |-> [n \in (defaulted \cup positional) \ skip |->
                            IF n \in positional THEN PosOf(n)
                            ELSE DefaultOf(n)]]

store_args(argspec, skip, args, kwargs) ==
    LET na == Len(argspec.args)
        nd == Len(argspec.defaults)
        \* zip(argspec.args[::-1], argspec.defaults[::-1])
        defaulted  == {argspec.args[na - nd + k] : k \in 1..nd}
        \* zip(argspec.args[1:], args)
        positional == {argspec.args[1 + k] : k \in 1..Min(Len(args), na - 1)}
        DefaultOf(n) ==
            argspec.defaults[CHOOSE k \in 1..nd : argspec.args[na - nd + k] = n]
        PosOf(n) == args[CHOOSE k \in 1..Len(args) : argspec.args[1 + k] = n]
    IN  \* "argspec.kwonlydefaults and args.kwonlyargs": args is the tuple of
        \* positional arguments, which has no attribute kwonlyargs
        IF argspec.kwonlydefaults /= <<>>
        THEN [outcome |-> "AttributeError", attrs |-> <<>>]
        ELSE [outcome |-> "returned",
              attrs |-> [n \in (defaulted \cup positional \cup DOMAIN kwargs) \ skip |->
                            IF n \in DOMAIN kwargs THEN kwargs[n]
                            ELSE IF n \in positional THEN PosOf(n)
                            ELSE DefaultOf(n)]]

\* --------------------------------------------------------------- ObstacleCBF
MaxCoord == 1    \* largest coordinate of a position or of a control

\* A state x = (x, y, theta) carries its heading in quarter turns, theta =
\* x[3] * pi/2, where cos and sin are integers.
Cos(k) == <<1, 0, -1, 0>>[(k % 4) + 1]
Sin(k) == <<0, 1, 0, -1>>[(k % 4) + 1]

Dot(a, b) == Sum([i \in 1..Len(a) |-> a[i] * b[i]])

\* model.f_func(x): the unicycle has no drift; "DriftModel" is a
\* DynamicsModel with a constant drift
f_func(m, x) ==
    IF m = "UnicycleDynamicsModel" THEN [i \in 1..3 |-> 0 * x[i]]
    ELSE <<1, -1, 0>>

\* model.g_func(x): the unicycle's input matrix, one row per state coordinate
g_func(m, x) == <<<<Cos(x[3]), 0>>, <<Sin(x[3]), 0>>, <<0, 1>>>>

\* inspect.getfullargspec(ObstacleCBF.__init__); gamma_c is the parameter the
\* source writes with a Greek gamma
ObstacleCBF_argspec ==
    [args |-> <<"self", "model", "obstacle", "gamma_c", "name", "dtype",
                "max_unsafe_prob">>,
     defaults |-> <<40, "obstacle_cbf", "float32", "0.01">>,
     kwonlyargs |-> <<>>,
     kwonlydefaults |-> <<>>]

\* ObstacleCBF(*args, **kwargs): the wrapper of store_args, then the body
ObstacleCBF(args, kwargs) ==
    LET stored == store_args(ObstacleCBF_argspec, {"model", "max_unsafe_prob"},
                             args, kwargs)
    IN  [attrs  |-> stored.attrs,
         model  |-> args[1],
         center |-> args[2].center,
         radius |-> args[2].radius]

\* the property gamma
gamma(self) == self.attrs["gamma_c"]

value_cbf(self, x) ==
    (x[1] - self.center[1]) * (x[1] - self.center[1])
    + (x[2] - self.center[2]) * (x[2] - self.center[2])
    - self.radius * self.radius

grad_cbf(self, x) == <<2 * x[1], 2 * x[2], 0>>

\* -grad_cbf(x) @ g_func(x)
A(self, x) ==
    LET g == g_func(self.model, x)
        G == grad_cbf(self, x)
    IN  [j \in 1..2 |-> -Sum([i \in 1..3 |-> G[i] * g[i][j]])]

\* grad_cbf(x) @ f_func(x) + gamma * cbf(x)
b(self, x) ==
    Dot(grad_cbf(self, x), f_func(self.model, x)) + gamma(self) * value_cbf(self, x)

\* __call__(x, u)
call(self, x, u) == Dot(A(self, x), u) - b(self, x)

Coords == (-MaxCoord)..MaxCoord

Controls == {<<v, w>> : v \in Coords, w \in Coords}

Obstacles ==
    {[center |-> <<0, 0>>, radius |-> 1], [center |-> <<1, 0>>, radius |-> 1],
     [center |-> <<-1, 2>>, radius |-> 2]}

\* the ways the constructor is called: gamma_c left to its default, given by
\* position, given by keyword; dtype given by keyword (as ControllerUnicycle does)
Calls ==
    {[args |-> <<m, o>>, kwargs |-> <<>>] : m \in {"UnicycleDynamicsModel", "DriftModel"},
                                            o \in Obstacles}
    \cup {[args |-> <<m, o, g>>, kwargs |-> <<>>]
          : m \in {"UnicycleDynamicsModel"}, o \in Obstacles, g \in {1, 3}}
    \cup {[args |-> <<m, o>>, kwargs |-> [n \in {"gamma_c"} |-> g]]
          : m \in {"DriftModel"}, o \in Obstacles, g \in {2}}
    \cup {[args |-> <<m, o>>, kwargs |-> [n \in {"dtype"} |-> "float64"]]
          : m \in {"UnicycleDynamicsModel"}, o \in Obstacles}

InitCBF ==
    cbf \in {[op |-> "none", call |-> c, x |-> <<px, py, k>>, u |-> u,
              self |-> None, value |-> None]
             : c \in Calls, px \in Coords, py \in Coords, k \in 0..3, u \in Controls}

Construct ==
    /\ cbf.op = "none"
    /\ cbf' = [cbf EXCEPT !.op = "constructed",
                          !.self = ObstacleCBF(cbf.call.args, cbf.call.kwargs)]
    /\ UNCHANGED <<model, likelihood, ret, fitted, enc, knl, misc, ctrl, uni>>

Evaluate ==
    /\ cbf.op = "constructed"
    /\ cbf' = [cbf EXCEPT !.op = "evaluated",
                          !.value = [cbf      |-> value_cbf(cbf.self, cbf.x),
                                     grad_cbf |-> grad_cbf(cbf.self, cbf.x),
                                     A        |-> A(cbf.self, cbf.x),
                                     b        |-> b(cbf.self, cbf.x),
                                     call     |-> call(cbf.self, cbf.x, cbf.u)]]
    /\ UNCHANGED <<model, likelihood, ret, fitted, enc, knl, misc, ctrl, uni>>

NextCBF == Construct \/ Evaluate

InitObstacle ==
    /\ InitEngine /\ InitCBF
    /\ enc = Idle /\ knl = Idle /\ misc = Idle /\ ctrl = Idle /\ uni = Idle

SpecCBF == InitObstacle /\ [][NextCBF]_vars

\* ---------------------------------------------------------------- torch_kron
MaxKron == 2     \* rows and columns of a matrix handed to torch_kron

\* A dense tensor: its shape and its entries in row-major order.
\* the row-major stride of dimension k
Stride(shape, k) == Prod(SubSeq(shape, k + 1, Len(shape)))

\* the 0-based multi-index of the entry at 0-based offset f, and back
Unravel(shape, f) == [k \in 1..Len(shape) |-> (f \div Stride(shape, k)) % shape[k]]

Ravel(shape, idx) == Sum([k \in 1..Len(shape) |-> idx[k] * Stride(shape, k)])

\* T[idx]
At(T, idx) == T.flat[Ravel(T.shape, idx) + 1]

\* T.reshape(*shape)
reshape(T, shape) == [shape |-> shape, flat |-> T.flat]

\* A * B, elementwise, a dimension of size 1 broadcast along the other's
mul(A_, B_) ==
    LET shape == [k \in 1..Len(A_.shape) |->
                     IF A_.shape[k] = 1 THEN B_.shape[k] ELSE A_.shape[k]]
        Cast(T, idx) == [k \in 1..Len(idx) |-> IF T.shape[k] = 1 THEN 0 ELSE idx[k]]
    IN  [shape |-> shape,
         flat  |-> [f \in 1..Prod(shape) |->
                       At(A_, Cast(A_, Unravel(shape, f - 1)))
                       * At(B_, Cast(B_, Unravel(shape, f - 1)))]]

\* mutant: A is reshaped as B should be, and B as A
torch_kron_swapped(A_, B_) ==
    LET b_ == B_.shape[1]
        B_shape == RowCat([k \in 1..(Len(B_.shape) - 1) |-> <<B_.shape[k + 1], 1>>])
        A_shape == RowCat([k \in 1..(Len(A_.shape) - 1) |-> <<1, A_.shape[k + 1]>>])
        kron_shape == [k \in 1..(Len(A_.shape) - 1) |-> A_.shape[k + 1] * B_.shape[k + 1]]
    IN  IF A_.shape[1] /= b_
        THEN [outcome |-> "AssertionError", value |-> None]
        ELSE [outcome |-> "returned",
              value |-> reshape(mul(reshape(A_, <<b_>> \o A_shape),
                                    reshape(B_, <<b_>> \o B_shape)),
                                <<b_>> \o kron_shape)]

\* torch_kron(A, B) of two batches of matrices A_ and B_
torch_kron(A_, B_) ==
    LET b_ == B_.shape[1]
        B_shape == RowCat([k \in 1..(Len(B_.shape) - 1) |-> <<1, B_.shape[k + 1]>>])
        A_shape == RowCat([k \in 1..(Len(A_.shape) - 1) |-> <<A_.shape[k + 1], 1>>])
        kron_shape == [k \in 1..(Len(A_.shape) - 1) |-> A_.shape[k + 1] * B_.shape[k + 1]]
    IN  IF A_.shape[1] /= b_
        THEN [outcome |-> "AssertionError", value |-> None]
        ELSE [outcome |-> "returned",
              value |-> reshape(mul(reshape(A_, <<b_>> \o A_shape),
                                    reshape(B_, <<b_>> \o B_shape)),
                                <<b_>> \o kron_shape)]

\* torch.rand(*shape), stood in for by entries that differ from place to
\* place: the entry at offset f is base + f
Rand(shape, base) == [shape |-> shape, flat |-> [f \in 1..Prod(shape) |-> base + f]]

InitTorchKron ==
    misc \in {[fn |-> "torch_kron", op |-> "none",
               A |-> Rand(<<bA, r, c>>, 1), B |-> Rand(<<bB, s, d>>, 100),
               outcome |-> "none", value |-> None]
              : bA \in 1..2, bB \in 1..2,
                r \in 1..MaxKron, c \in 1..MaxKron, s \in 1..MaxKron, d \in 1..MaxKron}

TorchKron ==
    /\ misc.fn = "torch_kron"
    /\ misc.op = "none"
    /\ LET k == torch_kron(misc.A, misc.B)
       IN  misc' = [misc EXCEPT !.op = "torch_kron", !.outcome = k.outcome,
                                !.value = k.value]
    /\ UNCHANGED <<model, likelihood, ret, fitted, enc, knl, cbf, ctrl, uni>>

\* ------------------------------------------------- store_args, on its own
\* inspect.getfullargspec of constructors: UnicycleVisualizerMatplotlib's,
\* wrapped by store_args without skip, and ObstacleCBF's above
UnicycleVisualizerMatplotlib_argspec ==
    [args |-> <<"self", "robotsize", "obstacles", "x_goal", "summary_writer",
                "every_n_steps">>,
     defaults |-> <<5>>,
     kwonlyargs |-> <<>>,
     kwonlydefaults |-> <<>>]

\* a constructor with a keyword-only parameter that has a default:
\* def __init__(self, a, b=2, *, c=3)
KeywordOnly_argspec ==
    [args |-> <<"self", "a", "b">>,
     defaults |-> <<2>>,
     kwonlyargs |-> <<"c">>,
     kwonlydefaults |-> [n \in {"c"} |-> 3]]

Wrapped ==
    {[argspec |-> UnicycleVisualizerMatplotlib_argspec, skip |-> {}],
     [argspec |-> ObstacleCBF_argspec, skip |-> {"model", "max_unsafe_prob"}],
     [argspec |-> KeywordOnly_argspec, skip |-> {}],
     [argspec |-> KeywordOnly_argspec, skip |-> {"b"}]}

\* the named parameters of a signature, self left out, and those that must
\* be given in a call
Named(argspec) == Tail(argspec.args) \o argspec.kwonlyargs

Required(argspec) ==
    {argspec.args[k] : k \in 2..(Len(argspec.args) - Len(argspec.defaults))}

\* the calls Python accepts: npos positional arguments and the parameters of
\* bykw by keyword; every required parameter is given, none is given twice.
\* The value given for parameter number k is 10 + k by position and 20 + k
\* by keyword.
WrappedCalls(argspec) ==
    LET names == Named(argspec)
        np    == Len(argspec.args) - 1
    IN  {[args   |-> [k \in 1..npos |-> 10 + k],
          kwargs |-> [n \in bykw |->
                        20 + (CHOOSE k \in 1..Len(names) : names[k] = n)]]
         : <<npos, bykw>> \in
             {c \in (0..np) \X (SUBSET {names[k] : k \in 1..Len(names)}) :
                 /\ \A k \in 1..c[1] : names[k] \notin c[2]
                 /\ \A n \in Required(argspec) :
                        n \in c[2] \/ (\E k \in 1..c[1] : names[k] = n)}}

InitStoreArgs ==
    misc \in {[fn |-> "store_args", op |-> "none", argspec |-> w.argspec,
               skip |-> w.skip, args |-> c.args, kwargs |-> c.kwargs,
               outcome |-> "none", value |-> None]
              : <<w, c>> \in {x \in Wrapped \X UNION {WrappedCalls(v.argspec) : v \in Wrapped}
                                : x[2] \in WrappedCalls(x[1].argspec)}}

\* wrapped_method(self, *args, **kwargs), up to the call of the wrapped body
StoreArgs ==
    /\ misc.fn = "store_args"
    /\ misc.op = "none"
    /\ LET r == store_args(misc.argspec, misc.skip, misc.args, misc.kwargs)
       IN  misc' = [misc EXCEPT !.op = "store_args", !.outcome = r.outcome,
                                !.value = r.attrs]
    /\ UNCHANGED <<model, likelihood, ret, fitted, enc, knl, cbf, ctrl, uni>>

\* ------------------------------------------------------ variable_required_grad
MaxDepth == 2    \* nested "with variable_required_grad(...)" blocks

\* A tensor: grad_fn is None for a leaf, requires_grad its flag, data its
\* entries.  A tensor that is not a leaf requires grad.
Tensor(grad_fn, requires_grad, data) ==
    [grad_fn |-> grad_fn, requires_grad |-> requires_grad, data |-> data]

isleaf(x) == x.grad_fn = None

\* x.requires_grad_(flag)
requires_grad_(x, flag) == [x EXCEPT !.requires_grad = flag]

\* x.detach().clone(): a new leaf with a copy of the data
detach_clone(x) == Tensor(None, FALSE, x.data)

\* variable_required_grad(x) up to its yield: x as the call leaves it, the
\* tensor it yields, and whether the yielded tensor is x itself
variable_required_grad(x) ==
    LET old_x_requires_grad == x.requires_grad
        xleaf == IF isleaf(x) THEN x ELSE detach_clone(x)
    IN  [old_x_requires_grad |-> old_x_requires_grad,
         is_x    |-> isleaf(x),
         x       |-> IF isleaf(x) THEN requires_grad_(x, TRUE) ELSE x,
         yielded |-> requires_grad_(xleaf, TRUE)]

\* mutant: the flag is switched off when the block is left
variable_required_grad_finally_off(x, old_x_requires_grad) ==
    IF isleaf(x) THEN requires_grad_(x, FALSE) ELSE x

\* the finally clause of variable_required_grad(x): x as it leaves it
variable_required_grad_finally(x, old_x_requires_grad) ==
    IF isleaf(x) THEN requires_grad_(x, old_x_requires_grad) ELSE x

\* The tensors x and xp of t_hessian(f, x, xp): each a leaf that does not
\* require grad, a leaf that does, or the result of an operation.
TensorsOf(data) ==
    {Tensor(None, FALSE, data), Tensor(None, TRUE, data),
     Tensor([type |-> "MulBackward0"], TRUE, data)}

\* stack: the blocks that are open, the innermost last; exc: an exception is
\* propagating out of the blocks; exited: the blocks that were left
InitGrad ==
    misc \in {[fn |-> "variable_required_grad", op |-> "none",
               tensors |-> [n \in {"x", "xp"} |-> IF n = "x" THEN a ELSE c],
               stack |-> <<>>, exc |-> FALSE, exited |-> <<>>]
              : a \in TensorsOf(<<1, 2>>), c \in TensorsOf(<<3, 4>>)}

\* with variable_required_grad(tensor): the block is entered
GradEnter ==
    /\ misc.fn = "variable_required_grad"
    /\ ~misc.exc /\ misc.exited = <<>>
    /\ Len(misc.stack) < MaxDepth
    /\ \E n \in {"x", "xp"} :
           LET g == variable_required_grad(misc.tensors[n])
           IN  misc' = [misc EXCEPT
                           !.op = "with",
                           !.tensors[n] = g.x,
                           !.stack = Append(@, [target |-> n,
                                                before |-> misc.tensors[n],
                                                old_x_requires_grad |-> g.old_x_requires_grad,
                                                is_x |-> g.is_x,
                                                yielded |-> g.yielded])]
    /\ UNCHANGED <<model, likelihood, ret, fitted, enc, knl, cbf, ctrl, uni>>

\* the body of the innermost block raises
GradRaise ==
    /\ misc.fn = "variable_required_grad"
    /\ ~misc.exc /\ misc.exited = <<>>
    /\ misc.stack /= <<>>
    /\ misc' = [misc EXCEPT !.exc = TRUE]
    /\ UNCHANGED <<model, likelihood, ret, fitted, enc, knl, cbf, ctrl, uni>>

\* the innermost block is left, at the end of its body or by the exception
GradExit ==
    /\ misc.fn = "variable_required_grad"
    /\ misc.stack /= <<>>
    /\ LET top   == misc.stack[Len(misc.stack)]
           after == variable_required_grad_finally(misc.tensors[top.target],
                                                   top.old_x_requires_grad)
       IN  misc' = [misc EXCEPT
                       !.tensors[top.target] = after,
                       !.stack = SubSeq(@, 1, Len(@) - 1),
                       !.exited = Append(@, [target |-> top.target,
                                             before |-> top.before,
                                             after  |-> after,
                                             exc    |-> misc.exc])]
    /\ UNCHANGED <<model, likelihood, ret, fitted, enc, knl, cbf, ctrl, uni>>

NextMisc == TorchKron \/ StoreArgs \/ GradEnter \/ GradRaise \/ GradExit

InitMisc ==
    /\ InitEngine
    /\ InitTorchKron \/ InitStoreArgs \/ InitGrad
    /\ enc = Idle /\ knl = Idle /\ cbf = Idle /\ ctrl = Idle /\ uni = Idle

SpecMisc == InitMisc /\ [][NextMisc]_vars

\* ----------------------------------------------------------- the control loop
\* The loop of the learned controller (ControlCBFLearned), which
\* ControllerUnicycle configures: at step t it retrains the engine on the
\* training log when t is a multiple of train_every_n_steps and the log is not
\* empty, decides between exploring and exploiting, applies the control and
\* logs the observation of the step.
MaxSteps == 8    \* control steps of a run
MaxTrain == 3    \* max_train, and train_every_n_steps, of a controller

\* mutant: a full log keeps its entries and drops the new observation
Observe_keep_oldest(log, obs, max_train) ==
    IF Len(log) >= max_train THEN log ELSE Append(log, obs)

\* the training log after obs is appended to it, capped at max_train entries
Observe(log, obs, max_train) ==
    IF Len(log) >= max_train
    THEN Append(SubSeq(log, Len(log) - max_train + 2, Len(log)), obs)
    ELSE Append(log, obs)

InitController ==
    ctrl \in {[t |-> 0, log |-> <<>>, max_train |-> c, train_every_n_steps |-> n,
               mode |-> "none", retrained |-> FALSE]
              : c \in 1..MaxTrain, n \in 1..MaxTrain}

ControlStep ==
    /\ ctrl.t < MaxSteps
    /\ \E mode \in {"explore", "exploit"} :
       LET due == ctrl.t % ctrl.train_every_n_steps = 0 /\ ctrl.log /= <<>>
           N   == Len(ctrl.log)
       IN  /\ IF due
              THEN fit([i \in 1..N |-> ctrl.log[i].x], [i \in 1..N |-> ctrl.log[i].u],
                       [i \in 1..N |-> ctrl.log[i].xdot], MaxIter,
                       [at |-> "none", i |-> 0])
              ELSE UNCHANGED <<model, likelihood, ret, fitted>>
           /\ ctrl' = [ctrl EXCEPT
                          !.t = ctrl.t + 1,
                          !.log = Observe(ctrl.log, Observation(ctrl.t + 1),
                                          ctrl.max_train),
                          !.mode = mode,
                          !.retrained = due]
    /\ UNCHANGED <<enc, knl, cbf, misc, uni>>

NextControl == ControlStep

InitCtrl ==
    /\ InitEngine /\ InitController
    /\ enc = Idle /\ knl = Idle /\ cbf = Idle /\ misc = Idle /\ uni = Idle

SpecControl == InitCtrl /\ [][NextControl]_vars

\* -------------------------------------------------------- ShiftInvariantModel
MaxPos == 1      \* largest coordinate of a query state

\* the 0-based indices a slice(start, stop, step) selects of n coordinates
SliceIndices(sl, n) ==
    {i \in 0..(n - 1) : i >= sl[1] /\ i < sl[2] /\ (i - sl[1]) % sl[3] = 0}

\* ShiftInvariantModel(..., invariate_slice=slice(0, 2, 1))
ShiftInvariantModel(invariate_slice) ==
    [type |-> "ShiftInvariantModel", invariate_slice |-> invariate_slice]

\* _filter_state(Xtest_in)
filter_state(self, Xtest_in) ==
    LET ones == [i \in 1..Len(Xtest_in) |->
                    IF (i - 1) \in SliceIndices(self.invariate_slice, Len(Xtest_in))
                    THEN 0 ELSE 1]
    IN  [i \in 1..Len(Xtest_in) |-> Xtest_in[i] * ones[i]]

\* A prediction method of the underlying regressor (ControlAffineRegressor):
\* what it returns is a function of the method and of the arguments it is
\* queried with, and of nothing else; two queries with different arguments
\* can return different predictions.
ControlAffineRegressor(method, args) == [method |-> method, args |-> args]

ShiftInvariantModel_f_func_mean(self, Xtest_in) ==
    ControlAffineRegressor("f_func_mean", <<Xtest_in>>)

ShiftInvariantModel_f_func_knl(self, Xtest_in, Xtestp_in) ==
    ControlAffineRegressor("f_func_knl", <<filter_state(self, Xtest_in),
                                           filter_state(self, Xtestp_in)>>)

ShiftInvariantModel_fu_func_mean(self, Utest_in, Xtest_in) ==
    ControlAffineRegressor("fu_func_mean", <<Utest_in, filter_state(self, Xtest_in)>>)

ShiftInvariantModel_fu_func_knl(self, Utest_in, Xtest_in, Xtestp_in) ==
    ControlAffineRegressor("fu_func_knl", <<Utest_in, filter_state(self, Xtest_in),
                                            filter_state(self, Xtestp_in)>>)

ShiftInvariantModel_covar_fu_f(self, Utest_in, Xtest_in, Xtestp_in) ==
    ControlAffineRegressor("covar_fu_f", <<Utest_in, filter_state(self, Xtest_in),
                                           filter_state(self, Xtestp_in)>>)

ShiftInvariantModel_f_func(self, Xtest_in) ==
    ControlAffineRegressor("f_func", <<filter_state(self, Xtest_in)>>)

ShiftInvariantModel_g_func(self, Xtest_in) ==
    ControlAffineRegressor("g_func", <<filter_state(self, Xtest_in)>>)

Methods ==
    {"f_func", "g_func", "f_func_mean", "f_func_knl", "fu_func_mean", "fu_func_knl",
     "covar_fu_f"}

\* model.<method>(...) with the arguments of a query q = (u, x, xp) that the
\* method takes
Query(self, method, q) ==
    CASE method = "f_func"       -> ShiftInvariantModel_f_func(self, q.x)
      [] method = "g_func"       -> ShiftInvariantModel_g_func(self, q.x)
      [] method = "f_func_mean"  -> ShiftInvariantModel_f_func_mean(self, q.x)
      [] method = "f_func_knl"   -> ShiftInvariantModel_f_func_knl(self, q.x, q.xp)
      [] method = "fu_func_mean" -> ShiftInvariantModel_fu_func_mean(self, q.u, q.x)
      [] method = "fu_func_knl"  -> ShiftInvariantModel_fu_func_knl(self, q.u, q.x, q.xp)
      [] method = "covar_fu_f"   -> ShiftInvariantModel_covar_fu_f(self, q.u, q.x, q.xp)

Positions == 0..MaxPos

States == {<<px, py, th>> : px \in Positions, py \in Positions, th \in Positions}

\* x with d[i] added to its coordinate i
Shift(x, d) == [i \in 1..Len(x) |-> x[i] + d[i]]

\* the displacements that move only the coordinates of the slice
Displacements(sl) ==
    {d \in States : \A i \in 1..3 : (i - 1) \notin SliceIndices(sl, 3) => d[i] = 0}

\* Inputs: a model, a method, and two queries of it that differ only in the
\* coordinates of the invariate slice of their states
InitShiftInvariant ==
    uni \in UNION {
        {[fn |-> "ShiftInvariantModel", op |-> "none",
          self |-> ShiftInvariantModel(sl), method |-> m,
          queries |-> <<[u |-> <<1, 2>>, x |-> x, xp |-> xp],
                        [u |-> <<1, 2>>, x |-> Shift(x, d), xp |-> Shift(xp, dp)]>>,
          results |-> <<>>]
         : m \in Methods, x \in States, xp \in {<<0, 1, 1>>},
           d \in Displacements(sl),
           dp \in {dd \in Displacements(sl) : \A i \in 1..3 : dd[i] \in {0, dd[1]}}}
        : sl \in {<<0, 2, 1>>, <<0, 3, 2>>}}

\* the next of the two queries is made
ShiftInvariantQuery ==
    /\ uni.fn = "ShiftInvariantModel"
    /\ Len(uni.results) < Len(uni.queries)
    /\ uni' = [uni EXCEPT
                  !.op = "query",
                  !.results = Append(@, Query(uni.self, uni.method,
                                              uni.queries[Len(uni.results) + 1]))]
    /\ UNCHANGED <<model, likelihood, ret, fitted, enc, knl, cbf, misc, ctrl>>

\* --------------------------------------------------- UnsafeControllerUnicycle
MaxT == 2        \* control steps of the unsafe controller

Max(p, q) == IF p >= q THEN p ELSE q

\* clip(x, min_, max_) = torch.max(torch.min(x, max_), min_)
clip(x, min_, max_) == [i \in 1..Len(x) |-> Max(Min(x[i], max_[i]), min_[i])]

\* unsafe_control(xi, t), of the learned controller (ControlCBFLearned): the
\* unconstrained goal-seeking action, a function of the state and the goal;
\* it is not clipped
unsafe_control(self, xi, t_) ==
    <<(self.x_goal[1] - xi[1]) + (self.x_goal[2] - xi[2]), self.x_goal[3] - xi[3]>>

\* epsilon_greedy_unsafe_control(t, xi, min_, max_), of the learned
\* controller: with explore the outcome of the draw against epsilon(t) and
\* rand the random action drawn, the random action if the draw says explore
\* and the goal-seeking action otherwise, clipped to [min_, max_]
epsilon_greedy_unsafe_control(self, t_, xi, min_, max_, explore, rand) ==
    clip(IF explore THEN rand ELSE unsafe_control(self, xi, t_), min_, max_)

\* mutant: the epsilon-greedy action is returned
control_egreedy(self, xi, t_, explore, rand) ==
    LET ui == epsilon_greedy_unsafe_control(self, t_, xi, self.ctrl_range[1],
                                            self.ctrl_range[2], explore, rand)
    IN  [first |-> ui, value |-> ui]

\* UnsafeControllerUnicycle.control(xi, t): first is the value of ui after
\* the first assignment, value the action returned
control(self, xi, t_, explore, rand) ==
    LET ui1 == epsilon_greedy_unsafe_control(self, t_, xi, self.ctrl_range[1],
                                             self.ctrl_range[2], explore, rand)
        ui  == unsafe_control(self, xi, t_)
    IN  [first |-> ui1, value |-> ui]

\* the random actions an exploring draw can come with
RandomControls == {<<-3, 0>>, <<0, 1>>, <<1, -2>>}

InitUnsafeController ==
    uni \in {[fn |-> "UnsafeControllerUnicycle", op |-> "none",
              self |-> [ctrl_range |-> <<<<-1, -2>>, <<1, 2>>>>,
                        x_goal |-> <<MaxPos, MaxPos + 1, 0>>],
              xi |-> xi, t |-> 0, last |-> None, value |-> None]
             : xi \in States}

\* one step of the loop: control(xi, t), then the robot moves
UnsafeControl ==
    /\ uni.fn = "UnsafeControllerUnicycle"
    /\ uni.t < MaxT
    /\ \E explore \in BOOLEAN, rand \in RandomControls, next \in States :
           LET r == control(uni.self, uni.xi, uni.t, explore, rand)
           IN  uni' = [uni EXCEPT
                          !.op = "control",
                          !.last = [xi |-> uni.xi, t |-> uni.t, explore |-> explore,
                                    rand |-> rand, first |-> r.first],
                          !.value = r.value,
                          !.xi = next,
                          !.t = uni.t + 1]
    /\ UNCHANGED <<model, likelihood, ret, fitted, enc, knl, cbf, misc, ctrl>>

NextUnicycle == ShiftInvariantQuery \/ UnsafeControl

InitUni ==
    /\ InitEngine
    /\ InitShiftInvariant \/ InitUnsafeController
    /\ enc = Idle /\ knl = Idle /\ cbf = Idle /\ misc = Idle /\ ctrl = Idle

SpecUnicycle == InitUni /\ [][NextUnicycle]_vars

\* --------------------------------------------------------------------------
\* Claims about the engine (DynamicModelGP), checked under Spec.

TrainData(m) ==
    IF m = None THEN None
    ELSE [train_inputs |-> m.train_inputs, train_targets |-> m.train_targets,
          decoder |-> m.decoder]

\* C1: predict returns a prediction only if an earlier fit call completed;
\* while no fit call has completed (none was made, or each one raised),
\* predict raises the not-fitted RuntimeError and returns nothing.
C1_PredictNeedsCompletedFit ==
    (ret.op = "predict" /\ fitted = "never")
        => (ret.outcome = "raised" /\ ret.at = "RuntimeError" /\ ret.value = None)

\* C2: a fit call that raises while building the model or in an optimisation
\* step, made when the engine holds the result of a completed fit, leaves the
\* engine's model and likelihood those of that completed fit.
C2_FailedFitKeepsFittedModel ==
    [][(/\ fitted = "intact"
        /\ ret'.op = "fit"
        /\ ret'.at \in {"DynamicsModelExactGP", "loop"})
       => (model' = model /\ likelihood' = likelihood)]_vars

\* C5: predict leaves the stored training inputs, training targets and decoder
\* widths unchanged; they change only in a fit call; a fit call that builds a
\* model builds it, with a new likelihood object, from that call's arguments
\* alone: one training row per row of Xtrain, carrying that row's state and
\* control, and the flattened XdotTrain as targets.
C5_TrainingDataFrame ==
    [][/\ ret'.op = "predict" => TrainData(model') = TrainData(model)
       /\ TrainData(model') /= TrainData(model) => ret'.op = "fit"
       /\ (ret'.op = "fit" /\ ret'.args /= None) =>
            LET a == ret'.args
                d == decode(model'.decoder, model'.train_inputs)
            IN  /\ Len(model'.train_inputs) = Len(a.Xtrain)
                /\ d[2] = a.Xtrain
                /\ \A i \in 1..Len(a.Xtrain) :
                        SubSeq(d[3][i], 2, Len(d[3][i])) = a.Utrain[i]
                /\ model'.train_targets = Flat(a.XdotTrain)
                /\ model'.likelihood = likelihood'.id
                /\ likelihood'.id \notin LiveIds]_vars

\* a second model, built while the first one was live, has been queried
C5_Witness ==
    /\ ret.op = "predict"
    /\ ret.outcome = "returned"
    /\ fitted = "intact"
    /\ model.likelihood = 2
    /\ Len(model.train_inputs) = 1

\* C6 (as claimed): at a fit call made when the engine holds the result of a
\* completed fit, optimisation starts from that fit's hyperparameters.
C6_WarmStart ==
    [][(fitted = "intact" /\ ret'.op = "fit" /\ ret'.start /= None)
       => ret'.start = model.hyper]_vars

\* C6 (amended): at every fit call optimisation starts from the
\* hyperparameters of the newly constructed model, to which no optimizer step
\* has been applied, and not from the trained hyperparameters of the model
\* the engine held before.
C6_FreshStart ==
    [][(ret'.op = "fit" /\ ret'.start /= None)
       => /\ ret'.start.steps = 0
          /\ (model /= None /\ model.hyper.steps > 0) => ret'.start /= model.hyper]_vars

\* a fit call has completed on an engine holding a trained model
C6_Witness ==
    /\ ret.op = "fit"
    /\ ret.outcome = "returned"
    /\ model.likelihood = 2
    /\ model.hyper.steps = MaxIter

\* C10 (as claimed): every training row decodes to (mask, x, a) with mask 1
\* and a equal to the row's control input, of the control's width.
C10_AuxIsControl ==
    (ret.op = "fit" /\ ret.args /= None) =>
        LET d == decode(model.decoder, model.train_inputs)
        IN  \A i \in 1..Len(ret.args.Xtrain) :
                /\ d[1][i] = <<1>>
                /\ d[2][i] = ret.args.Xtrain[i]
                /\ d[3][i] = ret.args.Utrain[i]
                /\ model.decoder[3] = Len(ret.args.Utrain[i])

\* C10 (amended): every training row decodes to (mask, x, a) with mask 1 and
\* a the row's control input with a leading 1, so the auxiliary field is one
\* wider than the control.
C10_AuxIsOneThenControl ==
    (ret.op = "fit" /\ ret.args /= None) =>
        LET d == decode(model.decoder, model.train_inputs)
        IN  /\ Len(model.train_inputs) = Len(ret.args.Xtrain)
            /\ \A i \in 1..Len(ret.args.Xtrain) :
                /\ d[1][i] = <<1>>
                /\ d[2][i] = ret.args.Xtrain[i]
                /\ d[3][i] = <<1>> \o ret.args.Utrain[i]
                /\ model.decoder[3] = Len(ret.args.Utrain[i]) + 1
                /\ model.decoder[3] = model.matshape[1]

\* a completed fit on a batch of several rows with different controls
C10_Witness ==
    /\ ret.op = "fit"
    /\ ret.outcome = "returned"
    /\ Len(model.train_inputs) = MaxRows
    /\ ret.args.Utrain[1] /= ret.args.Utrain[2]

\* --------------------------------------------------------------------------
\* Claims about CatEncoder, checked under SpecEncoder.

Widths(arrays) == [k \in 1..Len(arrays) |-> LastDim(arrays[k])]

\* C8: decode of a batch whose trailing width differs from the sum of the
\* recorded widths raises and returns no arrays.
C8_DecodeRejectsWrongWidth ==
    (enc.op = "decode" /\ LastDim(enc.args) /= Sum(enc.sizes))
        => (enc.outcome = "raised" /\ enc.result = None)

\* C9: with the widths from_data recorded, decoding the encoding of the
\* arrays returns those arrays in their order, and encoding the arrays that
\* decode returns for a batch of the recorded total width returns that batch.
C9_RoundTrip ==
    /\ (enc.op = "decode" /\ enc.batch = from_data(enc.arrays).X) =>
           /\ enc.sizes = Widths(enc.arrays)
           /\ enc.result = enc.arrays
    /\ (enc.op = "decode" /\ LastDim(enc.batch) = Sum(enc.sizes)) =>
           Widths(enc.result) = enc.sizes
    /\ (enc.op = "encode" /\ LastDim(enc.batch) = Sum(enc.sizes)) =>
           enc.result = enc.batch

\* an input batch of the recorded total width, three fields of different
\* widths, has been decoded and encoded again
C9_Witness ==
    /\ enc.op = "encode"
    /\ enc.sizes = <<1, 0, 2>>
    /\ LastDim(enc.X) = 3
    /\ enc.batch = enc.X

\* --------------------------------------------------------------------------
\* Claims about the ordering check, checked under SpecKernel.

\* a mask has a 0 row before a 1 row
ZeroBeforeOne(Ms) ==
    \E i \in 1..Len(Ms) : \E j \in (i + 1)..Len(Ms) : Ms[i] = 0 /\ Ms[j] = 1

\* C7: the kernel (called without last_dim_is_batch) and the mean raise the
\* ordering assertion, and return nothing, exactly when one of their batches
\* has a mask 0 row before a mask 1 row.
C7_UnsortedBatchRaises ==
    LET M1 == [i \in 1..Len(knl.mxu1) |-> knl.mxu1[i][1]]
        M2 == [i \in 1..Len(knl.mxu2) |-> knl.mxu2[i][1]]
    IN  /\ (knl.op = "kernel" /\ ~knl.last_dim_is_batch) =>
               /\ (knl.outcome = "AssertionError")
                      <=> (ZeroBeforeOne(M1) \/ ZeroBeforeOne(M2))
               /\ (knl.outcome = "AssertionError") => (knl.value = None)
        /\ knl.op = "mean" =>
               /\ (knl.outcome = "AssertionError") <=> ZeroBeforeOne(M1)
               /\ (knl.outcome /= "AssertionError") <=> (knl.outcome = "returned")
               /\ (knl.outcome = "AssertionError") => (knl.value = None)

\* the mean was called on a batch with a derivative row after a value row
\* that follows a derivative row
C7_Witness ==
    /\ knl.op = "mean"
    /\ Len(knl.mxu1) = 3
    /\ knl.mxu1[1][1] = 1 /\ knl.mxu1[2][1] = 0 /\ knl.mxu1[3][1] = 1
    /\ knl.outcome = "AssertionError"

\* --------------------------------------------------------------------------
\* Claims about ObstacleCBF, checked under SpecCBF.

\* the gradient of h(x) = |x[:2] - c|^2 - r^2
TrueGrad(c, x) == <<2 * (x[1] - c[1]), 2 * (x[2] - c[2]), 0>>

\* f(x) + g(x) u
Xdot(m, x, u) ==
    [i \in 1..3 |-> f_func(m, x)[i] + Dot(g_func(m, x)[i], u)]

\* the gamma_c the constructor was called with
PassedGamma(c) ==
    IF "gamma_c" \in DOMAIN c.kwargs THEN c.kwargs["gamma_c"]
    ELSE IF Len(c.args) >= 3 THEN c.args[3]
    ELSE 40

\* C3: every control u with A(x) u <= b(x) satisfies
\* grad h(x) . (f(x) + g(x) u) + gamma h(x) >= 0 for the true gradient of h,
\* and grad_cbf(x) is that gradient, whatever the obstacle's centre.
C3_ConstraintImpliesBarrierCondition ==
    cbf.op = "evaluated" =>
        LET c == cbf.self.center
            h == (cbf.x[1] - c[1]) * (cbf.x[1] - c[1])
                 + (cbf.x[2] - c[2]) * (cbf.x[2] - c[2])
                 - cbf.self.radius * cbf.self.radius
        IN  /\ cbf.value.grad_cbf = TrueGrad(c, cbf.x)
            /\ \A u \in Controls :
                   Dot(cbf.value.A, u) <= cbf.value.b
                       => Dot(TrueGrad(c, cbf.x), Xdot(cbf.self.model, cbf.x, u))
                          + PassedGamma(cbf.call) * h >= 0

\* C4: A(x) = -grad_cbf(x) g(x), b(x) = grad_cbf(x) f(x) + gamma cbf(x) with
\* gamma the gamma_c of the constructor call (40 when the call gives none),
\* __call__(x, u) = A(x) u - b(x), and A(x) u <= b(x) exactly when
\* __call__(x, u) <= 0.
C4_AffineConstraint ==
    cbf.op = "evaluated" =>
        LET v == cbf.value
            g == g_func(cbf.call.args[1], cbf.x)
            f == f_func(cbf.call.args[1], cbf.x)
        IN  /\ \A j \in 1..2 :
                   v.A[j] = -(v.grad_cbf[1] * g[1][j] + v.grad_cbf[2] * g[2][j]
                              + v.grad_cbf[3] * g[3][j])
            /\ v.b = v.grad_cbf[1] * f[1] + v.grad_cbf[2] * f[2] + v.grad_cbf[3] * f[3]
                     + PassedGamma(cbf.call) * v.cbf
            /\ v.call = v.A[1] * cbf.u[1] + v.A[2] * cbf.u[2] - v.b
            /\ (v.A[1] * cbf.u[1] + v.A[2] * cbf.u[2] <= v.b) <=> (v.call <= 0)

\* a constraint built with gamma_c given by keyword, for a model with drift,
\* evaluated at a point outside the obstacle where it forbids the control
C4_Witness ==
    /\ cbf.op = "evaluated"
    /\ "gamma_c" \in DOMAIN cbf.call.kwargs
    /\ cbf.value.cbf > 0
    /\ cbf.value.grad_cbf /= <<0, 0, 0>>
    /\ cbf.value.call > 0

\* --------------------------------------------------------------------------
\* More claims about the engine, checked under Spec.

\* C11: every test row a returning predict builds has mask 0 and an all-zero
\* auxiliary field, its three fields have the widths of the fitted model's
\* decoder (the widths of the training rows), so that decoder splits training
\* and test rows at the same offsets; predict leaves that decoder in place.
C11_TestRowsShareFrame ==
    [][(ret'.op = "predict" /\ ret'.outcome = "returned") =>
          LET v  == ret'.value
              dt == decode(model'.decoder, v.test)
              dn == decode(model'.decoder, model'.train_inputs)
          IN  /\ model'.decoder = model.decoder
              /\ v.decoder = model'.decoder
              /\ \A i \in 1..Len(v.test) :
                     /\ Len(v.test[i]) = Sum(model'.decoder)
                     /\ dt[1][i] = <<0>>
                     /\ Len(dt[2][i]) = model'.decoder[2]
                     /\ dt[3][i] = [j \in 1..model'.decoder[3] |-> 0]
              /\ \A i \in 1..Len(model'.train_inputs) :
                     /\ Len(model'.train_inputs[i]) = Sum(model'.decoder)
                     /\ \A k \in 1..3 : Len(dn[k][i]) = model'.decoder[k]]_vars

\* predict has returned for a test batch with more rows than the training set
C11_Witness ==
    /\ ret.op = "predict"
    /\ ret.outcome = "returned"
    /\ Len(ret.value.test) = MaxRows
    /\ Len(model.train_inputs) = 1
    /\ ret.value.test[1][1] = 0
    /\ model.train_inputs[1][1] = 1

\* C12 (as claimed): in the model fit builds for state dimension p and control
\* dimension m, the factor named U is (m+1) x (m+1), the factor named V is
\* p x p, and the joint task covariance V (x) U has size (m+1) p.
C12_FactorsAsNamed ==
    (ret.op = "fit" /\ ret.args /= None) =>
        LET m  == LastDim(ret.args.Utrain)
            p  == LastDim(ret.args.Xtrain)
            tc == model.task_covar
        IN  /\ IndexKernel_covar_matrix(tc.U).shape = <<m + 1, m + 1>>
            /\ IndexKernel_covar_matrix(tc.V).shape = <<p, p>>
            /\ MatrixVariateIndexKernel_covar_matrix(tc).shape
                   = <<(m + 1) * p, (m + 1) * p>>

\* C12 (amended): in the model fit builds for state dimension p and control
\* dimension m, the factor named U is p x p, the factor named V is
\* (m+1) x (m+1), and the joint task covariance V (x) U has size (m+1) p,
\* with entry [a p + c, b p + d] = V[a, b] U[c, d].
C12_FactorsAsBuilt ==
    (ret.op = "fit" /\ ret.args /= None) =>
        LET m  == LastDim(ret.args.Utrain)
            p  == LastDim(ret.args.Xtrain)
            tc == model.task_covar
            U  == IndexKernel_covar_matrix(tc.U)
            V  == IndexKernel_covar_matrix(tc.V)
            J  == MatrixVariateIndexKernel_covar_matrix(tc)
        IN  /\ U.shape = <<p, p>>
            /\ V.shape = <<m + 1, m + 1>>
            /\ J.shape = <<(m + 1) * p, (m + 1) * p>>
            /\ \A a \in 1..(m + 1), b_ \in 1..(m + 1), c \in 1..p, d \in 1..p :
                   J.e[(a - 1) * p + c][(b_ - 1) * p + d] = V.e[a][b_] * U.e[c][d]

\* a completed fit has built a model whose two factors differ in size
C12_Witness ==
    /\ ret.op = "fit"
    /\ ret.outcome = "returned"
    /\ model.task_covar.U.num_tasks /= model.task_covar.V.num_tasks
    /\ model.task_covar.V.num_tasks = LastDim(ret.args.Utrain) + 1

\* --------------------------------------------------------------------------
\* Claims about the heterogeneous kernel and mean, checked under SpecKernel.

\* the masks of a batch: 1 for each of the first k rows, 0 for the others
SortedAt(mxu, k) ==
    \A i \in 1..Len(mxu) : mxu[i][1] = (IF i <= k THEN 1 ELSE 0)

Sorted(mxu) == \E k \in 0..Len(mxu) : SortedAt(mxu, k)

\* the number of mask 1 rows of a sorted batch
Split(mxu) == CHOOSE k \in 0..Len(mxu) : SortedAt(mxu, k)

\* the state dimension p and the number n = m + 1 of rows of the task shape
StateDim == Len(Observation(1).x)

AuxDim == Len(Observation(1).u) + 1

\* the data covariance, the auxiliary vectors and the two factors of a call
KxxOf(mxu1, mxu2) ==
    data_covar_module(decode(KDecoder, mxu1)[2], decode(KDecoder, mxu2)[2]).e

AuxOf(mxu) == decode(KDecoder, mxu)[3]

FactorV == IndexKernel_covar_matrix(KKernel.task_covar_module.V).e

FactorU == IndexKernel_covar_matrix(KKernel.task_covar_module.U).e

\* C13: for one mask-sorted batch used on both sides, the kernel output is
\* (H (Kxx (x) V) H^T) (x) U, H the block-diagonal embedding of the rows'
\* auxiliary vectors, if every row is a derivative row, and Kxx (x) V (x) U,
\* with no H weighting, if every row is a value row.
C13_HomogeneousBatch ==
    (/\ knl.op = "kernel" /\ ~knl.last_dim_is_batch /\ ~knl.diag
     /\ knl.mxu1 = knl.mxu2
     /\ (SortedAt(knl.mxu1, Len(knl.mxu1)) \/ SortedAt(knl.mxu1, 0))) =>
        LET N   == Len(knl.mxu1)
            n   == AuxDim
            p   == StateDim
            Kxx == KxxOf(knl.mxu1, knl.mxu2)
            a   == AuxOf(knl.mxu1)
            HKH(i, j) ==
                Sum([f \in 1..(n * n) |->
                        a[i][((f - 1) \div n) + 1] * Kxx[i][j]
                        * FactorV[((f - 1) \div n) + 1][((f - 1) % n) + 1]
                        * a[j][((f - 1) % n) + 1]])
        IN  /\ knl.outcome = "returned"
            /\ SortedAt(knl.mxu1, N) =>
                   /\ knl.value.shape = <<N * p, N * p>>
                   /\ \A i \in 1..N, j \in 1..N, c \in 1..p, d \in 1..p :
                          knl.value.out[(i - 1) * p + c][(j - 1) * p + d]
                              = HKH(i, j) * FactorU[c][d]
            /\ SortedAt(knl.mxu1, 0) =>
                   /\ knl.value.shape = <<N * n * p, N * n * p>>
                   /\ \A i \in 1..N, j \in 1..N, r \in 1..n, q \in 1..n,
                         c \in 1..p, d \in 1..p :
                          knl.value.out[((i - 1) * n + r - 1) * p + c]
                                       [((j - 1) * n + q - 1) * p + d]
                              = Kxx[i][j] * FactorV[r][q] * FactorU[c][d]

\* the kernel has returned the covariance of a batch of several derivative
\* rows with itself
C13_Witness ==
    /\ knl.op = "kernel"
    /\ knl.outcome = "returned"
    /\ ~knl.diag
    /\ knl.mxu1 = knl.mxu2
    /\ Len(knl.mxu1) = MaxBatch
    /\ SortedAt(knl.mxu1, MaxBatch)
    /\ knl.value.blocks = {"11"}

\* C14: for a mask-sorted batch of N rows, k of them derivative rows, the
\* mean returns a vector of length k p + (N - k) (m+1) p: for each derivative
\* row a^T M (p entries, M the per-channel means in the task shape), then for
\* each value row its (m+1) p per-channel means; the kernel's covariance of
\* the batch with itself has as many rows.
C14_MeanLayout ==
    (knl.op = "mean" /\ Sorted(knl.mxu1)) =>
        LET N  == Len(knl.mxu1)
            k  == Split(knl.mxu1)
            n  == AuxDim
            p  == StateDim
            a  == AuxOf(knl.mxu1)
            M(r, c) == base_means((r - 1) * p + c, knl.mxu1)[1]
        IN  /\ knl.outcome = "returned"
            /\ Len(knl.value.output) = k * p + (N - k) * n * p
            /\ \A i \in 1..k, c \in 1..p :
                   knl.value.output[(i - 1) * p + c]
                       = Sum([r \in 1..n |-> a[i][r] * M(r, c)])
            /\ \A i \in 1..(N - k), r \in 1..n, c \in 1..p :
                   knl.value.output[k * p + ((i - 1) * n + r - 1) * p + c] = M(r, c)
            /\ \A r \in forward(KKernel, knl.mxu1, knl.mxu1, FALSE, FALSE) :
                   /\ r.outcome = "returned"
                   /\ r.value.shape[1] = Len(knl.value.output)

\* the mean has returned for a batch of derivative rows followed by value rows
C14_Witness ==
    /\ knl.op = "mean"
    /\ knl.outcome = "returned"
    /\ Len(knl.mxu1) = MaxBatch
    /\ SortedAt(knl.mxu1, 1)
    /\ Len(knl.value.output) > MaxBatch * StateDim

\* C15: a kernel call with last_dim_is_batch raises the error that names the
\* argument and returns no covariance, whatever the two batches (sorted or
\* not) and whatever diag.
C15_LastDimIsBatchRaises ==
    (knl.op = "kernel" /\ knl.last_dim_is_batch) =>
        (knl.outcome = LastDimIsBatchError /\ knl.value = None)

\* the kernel was called with last_dim_is_batch and diag on an unsorted batch
C15_Witness ==
    /\ knl.op = "kernel"
    /\ knl.last_dim_is_batch
    /\ knl.diag
    /\ ~Sorted(knl.mxu1)
    /\ Sorted(knl.mxu2)
    /\ knl.outcome = LastDimIsBatchError

\* C18: for every pair of mask-sorted batches, the kernel called with diag
\* returns the main diagonal of what the same call returns without diag, and
\* builds none of the off-diagonal blocks to get it.
C18_DiagWithoutOffDiagonalBlocks ==
    (/\ knl.op = "kernel" /\ ~knl.last_dim_is_batch /\ knl.diag
     /\ Sorted(knl.mxu1) /\ Sorted(knl.mxu2)) =>
        \A r \in forward(KKernel, knl.mxu1, knl.mxu2, FALSE, FALSE) :
            r.outcome = "returned" =>
                /\ knl.outcome = "returned"
                /\ knl.value.out
                       = [i \in 1..Min(r.value.shape[1], r.value.shape[2]) |->
                             r.value.out[i][i]]
                /\ knl.value.blocks \subseteq {"11", "22"}

\* C20: for two mask-sorted batches of N1 and N2 rows with k1 and k2
\* derivative rows, the kernel output has k1 p + (N1 - k1) n p rows and
\* k2 p + (N2 - k2) n p columns, its four blocks covering their own ranges,
\* also when the batches differ and when batch 1 has derivative rows only
\* while batch 2 has value rows.
C20_OutputShape ==
    (/\ knl.op = "kernel" /\ ~knl.last_dim_is_batch /\ ~knl.diag
     /\ Sorted(knl.mxu1) /\ Sorted(knl.mxu2)) =>
        LET N1  == Len(knl.mxu1)
            N2  == Len(knl.mxu2)
            k1  == Split(knl.mxu1)
            k2  == Split(knl.mxu2)
            n   == AuxDim
            p   == StateDim
            Kxx == KxxOf(knl.mxu1, knl.mxu2)
        IN  /\ knl.outcome = "returned"
            /\ knl.value.shape
                   = <<k1 * p + (N1 - k1) * n * p, k2 * p + (N2 - k2) * n * p>>
            \* the value x value block
            /\ \A i \in 1..(N1 - k1), j \in 1..(N2 - k2), r \in 1..n, q \in 1..n,
                  c \in 1..p, d \in 1..p :
                   knl.value.out[k1 * p + ((i - 1) * n + r - 1) * p + c]
                                [k2 * p + ((j - 1) * n + q - 1) * p + d]
                       = Kxx[k1 + i][k2 + j] * FactorV[r][q] * FactorU[c][d]

\* --------------------------------------------------------------------------
\* Claims about torch_kron, checked under SpecMisc.

\* C16: for A (b x r x c) and B (b x s x d), torch_kron(A, B) is b x (r s) x
\* (c d) with entry [k, i s + m, j d + n] = A[k, i, j] B[k, m, n]; its
\* top-left s x d block is A[k, 0, 0] B[k]; the task covariance V (x) U has
\* the same layout.
C16_KroneckerLayout ==
    (misc.op = "torch_kron" /\ misc.A.shape[1] = misc.B.shape[1]) =>
        LET b_ == misc.A.shape[1]
            r  == misc.A.shape[2]
            c  == misc.A.shape[3]
            s  == misc.B.shape[2]
            d  == misc.B.shape[3]
            tc == KKernel.task_covar_module
            V  == IndexKernel_covar_matrix(tc.V)
            U  == IndexKernel_covar_matrix(tc.U)
            VU == torch_kron([shape |-> <<1>> \o V.shape, flat |-> Flat(V.e)],
                             [shape |-> <<1>> \o U.shape, flat |-> Flat(U.e)])
        IN  /\ misc.outcome = "returned"
            /\ misc.value.shape = <<b_, r * s, c * d>>
            /\ Len(misc.value.flat) = b_ * r * s * c * d
            /\ \A k \in 0..(b_ - 1), i \in 0..(r - 1), j \in 0..(c - 1),
                  m \in 0..(s - 1), n \in 0..(d - 1) :
                   At(misc.value, <<k, i * s + m, j * d + n>>)
                       = At(misc.A, <<k, i, j>>) * At(misc.B, <<k, m, n>>)
            /\ \A k \in 0..(b_ - 1), m \in 0..(s - 1), n \in 0..(d - 1) :
                   At(misc.value, <<k, m, n>>)
                       = At(misc.A, <<k, 0, 0>>) * At(misc.B, <<k, m, n>>)
            /\ VU.outcome = "returned"
            /\ VU.value.flat = Flat(MatrixVariateIndexKernel_covar_matrix(tc).e)

\* torch_kron has returned for a batch of two row-shaped matrices A and a
\* batch of two column-shaped matrices B
C16_Witness ==
    /\ misc.op = "torch_kron"
    /\ misc.outcome = "returned"
    /\ misc.A.shape = <<2, 1, MaxKron>>
    /\ misc.B.shape = <<2, MaxKron, 1>>
    /\ misc.value.shape = <<2, MaxKron, MaxKron>>

\* --------------------------------------------------------------------------
\* Claims about the control loop, checked under SpecControl.

\* C19: after any number of control steps the training log holds the
\* min(steps, max_train) most recent observations in arrival order, whatever
\* the steps explored or exploited.
C19_LogHoldsMostRecent ==
    ctrl.t > 0 =>
        LET kept == Min(ctrl.t, ctrl.max_train)
        IN  ctrl.log = [i \in 1..kept |-> Observation(ctrl.t - kept + i)]

\* an exploring step has dropped the oldest of a full log of several entries
C19_Witness ==
    /\ ctrl.mode = "explore"
    /\ ctrl.max_train > 1
    /\ ctrl.t > ctrl.max_train + 1
    /\ Len(ctrl.log) = ctrl.max_train
    /\ ctrl.log[1] = Observation(ctrl.t - ctrl.max_train + 1)

\* --------------------------------------------------------------------------
\* Claims about the batches the engine hands on, checked under Spec.

\* C21: every batch an engine call hands to the mean and covariance modules
\* is mask-sorted: a fit call hands on mask 1 rows only; the test batch
\* predict builds has mask 0 rows only, and the joint batch it hands on is
\* the training rows followed by the test rows, all its mask 1 rows before
\* all its mask 0 rows; the mean's ordering assertion passes on each of them.
C21_HandedBatchesMaskSorted ==
    /\ \A k \in 1..Len(ret.handed) :
           /\ Sorted(ret.handed[k])
           /\ mean_forward(HetergeneousMatrixVariateMean(model.decoder, model.matshape),
                           ret.handed[k]).outcome = "returned"
    /\ ret.op = "fit" =>
           \A k \in 1..Len(ret.handed) :
               /\ ret.handed[k] = model.train_inputs
               /\ SortedAt(ret.handed[k], Len(ret.handed[k]))
    /\ (ret.op = "predict" /\ ret.outcome = "returned") =>
           LET joint == ret.handed[Len(ret.handed)]
           IN  /\ SortedAt(ret.value.test, 0)
               /\ joint = model.train_inputs \o ret.value.test
               /\ SortedAt(joint, Len(model.train_inputs))
               /\ \A k \in 1..(Len(ret.handed) - 1) :
                      ret.handed[k] = model.train_inputs

\* the first predict after a fit has handed on the training batch and then a
\* joint batch of several training rows and several test rows
C21_Witness ==
    /\ ret.op = "predict"
    /\ ret.outcome = "returned"
    /\ Len(ret.handed) = 2
    /\ Len(model.train_inputs) = MaxRows
    /\ Len(ret.value.test) = MaxRows
    /\ Len(ret.handed[2]) = 2 * MaxRows
    /\ ret.handed[2][MaxRows][1] = 1
    /\ ret.handed[2][MaxRows + 1][1] = 0

\* --------------------------------------------------------------------------
\* Claims about store_args, checked under SpecMisc.

\* the value a call gives a named parameter, or the parameter's declared
\* default when the call gives none
Given(m, n) ==
    LET names == Named(m.argspec)
        k     == CHOOSE i \in 1..Len(names) : names[i] = n
        na    == Len(m.argspec.args)
        nd    == Len(m.argspec.defaults)
    IN  IF n \in DOMAIN m.kwargs THEN m.kwargs[n]
        ELSE IF k <= Len(m.args) THEN m.args[k]
        ELSE IF k <= na - 1 THEN m.argspec.defaults[k + 1 - (na - nd)]
        ELSE m.argspec.kwonlydefaults[n]

\* C22: in every call Python accepts of a constructor wrapped by store_args,
\* the wrapped body starts, and then every named parameter not in skip
\* (positional, keyword, keyword-only with a default) is an attribute holding
\* the value the call gave it, or its declared default if the call gave none,
\* and no parameter in skip has been assigned.
C22_StoresEveryNamedParameter ==
    misc.op = "store_args" =>
        /\ misc.outcome = "returned"
        /\ \A k \in 1..Len(Named(misc.argspec)) :
               LET n == Named(misc.argspec)[k]
               IN  IF n \in misc.skip THEN n \notin DOMAIN misc.value
                   ELSE /\ n \in DOMAIN misc.value
                        /\ misc.value[n] = Given(misc, n)

\* --------------------------------------------------------------------------
\* Claims about variable_required_grad, checked under SpecMisc.

\* C26: inside a variable_required_grad(x) block the yielded tensor requires
\* grad; when x is not a leaf, the yielded tensor is a detached copy of x and
\* x is as it was before the block; after the block is left, at the end of
\* its body or by an exception, x.requires_grad is what it was before the
\* block, and an x that is not a leaf is unchanged; also for nested blocks.
C26_RequiresGradRestored ==
    misc.fn = "variable_required_grad" =>
        /\ \A k \in 1..Len(misc.stack) :
               LET f == misc.stack[k]
                   y == IF f.is_x THEN misc.tensors[f.target] ELSE f.yielded
               IN  /\ y.requires_grad
                   /\ ~isleaf(f.before) =>
                          /\ ~f.is_x
                          /\ misc.tensors[f.target] = f.before
                          /\ isleaf(y) /\ y.data = f.before.data
        /\ \A k \in 1..Len(misc.exited) :
               LET e == misc.exited[k]
               IN  /\ e.after.requires_grad = e.before.requires_grad
                   /\ ~isleaf(e.before) => e.after = e.before
        \* once every block is left, each tensor is as before its outermost block
        /\ misc.stack = <<>> =>
               \A k \in 1..Len(misc.exited) :
                   (\A j \in (k + 1)..Len(misc.exited) :
                        misc.exited[j].target /= misc.exited[k].target)
                   => misc.tensors[misc.exited[k].target] = misc.exited[k].before

\* two nested blocks, the outer one over a leaf x that did not require grad,
\* the inner one over an xp that is not a leaf, have been left by an exception
C26_Witness ==
    /\ misc.fn = "variable_required_grad"
    /\ misc.stack = <<>>
    /\ Len(misc.exited) = 2
    /\ misc.exited[1].target = "xp" /\ ~isleaf(misc.exited[1].before)
    /\ misc.exited[2].target = "x" /\ isleaf(misc.exited[2].before)
    /\ ~misc.exited[2].before.requires_grad
    /\ misc.exited[1].exc /\ misc.exited[2].exc
    /\ ~misc.tensors["x"].requires_grad

\* --------------------------------------------------------------------------
\* Claims about num_outputs_per_input, checked under SpecKernel.

\* C25: for every mask-sorted batch of N rows, k of them derivative rows,
\* num_outputs_per_input(batch, batch) times N is k p + (N - k) n p, the
\* number of rows of the covariance the kernel returns for the batch, also
\* for mixed batches (0 < k < N).
C25_OutputsPerInputTimesRows ==
    (/\ knl.op = "num_outputs_per_input"
     /\ knl.mxu1 = knl.mxu2
     /\ Sorted(knl.mxu1)) =>
        LET N == Len(knl.mxu1)
            k == Split(knl.mxu1)
        IN  /\ knl.value.num * N = k * StateDim + (N - k) * AuxDim * StateDim
            /\ \A r \in forward(KKernel, knl.mxu1, knl.mxu2, FALSE, FALSE) :
                   /\ r.outcome = "returned"
                   /\ r.value.shape[1] = knl.value.num * N

\* --------------------------------------------------------------------------
\* Claims about the models and controllers of unicycle.py, checked under
\* SpecUnicycle.

\* C23: every step, control(xi, t) returns the value of unsafe_control(xi, t),
\* whichever way the draw against epsilon went and whatever random action
\* came with it; the clipped epsilon-greedy action computed first is not
\* what is returned.
C23_ReturnsUnsafeControl ==
    (uni.fn = "UnsafeControllerUnicycle" /\ uni.op = "control") =>
        /\ uni.value = unsafe_control(uni.self, uni.last.xi, uni.last.t)
        /\ \A explore \in BOOLEAN, rand \in RandomControls :
               control(uni.self, uni.last.xi, uni.last.t, explore, rand).value
                   = uni.value

\* a later step of the loop explored, and returned an action outside
\* ctrl_range that differs from the epsilon-greedy action
C23_Witness ==
    /\ uni.fn = "UnsafeControllerUnicycle"
    /\ uni.op = "control"
    /\ uni.last.t > 0
    /\ uni.last.explore
    /\ uni.last.first /= uni.value
    /\ uni.value[1] > uni.self.ctrl_range[2][1]

\* C24: two queries of a prediction method of ShiftInvariantModel (f_func,
\* g_func, f_func_mean, f_func_knl, fu_func_mean, fu_func_knl, covar_fu_f)
\* whose states differ only in the coordinates of the invariate slice return
\* the same result.
C24_ShiftInvariantPredictions ==
    (uni.fn = "ShiftInvariantModel" /\ Len(uni.results) = 2) =>
        uni.results[1] = uni.results[2]

====
